---- MODULE Spec2Model ----
(***************************************************************************)
(* Model of the kindle book repository: the Book entity and the Library    *)
(* collection of app/model/kindle_model.py, and the business operations of *)
(* app/controller/business.py that the HTTP routes call, one action per    *)
(* operation.  A Library instance lives for one operation: it is loaded    *)
(* from its backing file when the operation starts and is dropped when the *)
(* operation returns or raises.                                            *)
(*                                                                         *)
(* Representation.  A Python str is a sequence of characters, a character  *)
(* a natural number.  An int is an integer; None in an int or float field  *)
(* is Null.  percentage_read is an exact fraction <<num, den>> in lowest   *)
(* terms (the float rounding of Python's division is not modelled).  A     *)
(* dict is a function from its keys, so a Book attribute set and the dict  *)
(* to_dict builds are both records.  An exception is the name of its class,*)
(* "builtins.X" for a Python built-in.                                     *)
(***************************************************************************)
EXTENDS Integers, Sequences, FiniteSets, TLC

\* ------------------------------------------------------------------ bounds
\* Most books the global file holds before add_book_global is no longer tried.
MaxGlobal == 2

\* ------------------------------------------------------------- value model
\* Python None in a numeric field.
Null == -1

IsNone(v) == v = Null

\* Python truthiness of an int-or-None value ("if self.pages").
Truthy(v) == ~IsNone(v) /\ v # 0

RECURSIVE Gcd(_, _)
Gcd(a, b) == IF b = 0 THEN a ELSE Gcd(b, a % b)

\* The number n / d as a fraction in lowest terms (n >= 0, d > 0).
Frac(n, d) == <<n \div Gcd(n, d), d \div Gcd(n, d)>>

\* The number 0, as update_last_read_page stores it when pages is falsy.
Zero == <<0, 1>>

\* ---------------------------------------------------------- business.py keys
ALLOWED_KEYS ==
    {"pages", "year", "title", "author", "uuid", "genre", "last_read_date", "language"}

REQUIRED_KEYS ==
    {"author", "country", "imageLink", "language", "link", "pages", "title", "year",
     "last_read_page", "percentage_read", "last_read_date"}

\* ------------------------------------------------------------------- Book
\* Book.__init__ called as cls(**data): every keyword becomes the attribute of
\* its name, and uuid is data's uuid when it is given and truthy, else a new
\* uuid4 (fresh).
BookInit(data, fresh) ==
    [author |-> data.author,
     country |-> data.country,
     imageLink |-> data.imageLink,
     language |-> data.language,
     link |-> data.link,
     pages |-> data.pages,
     title |-> data.title,
     year |-> data.year,
     last_read_page |-> data.last_read_page,
     percentage_read |-> data.percentage_read,
     last_read_date |-> data.last_read_date,
     uuid |-> IF "uuid" \in DOMAIN data /\ data.uuid # <<>> THEN data.uuid ELSE fresh]

\* from_json that gives every book a new uuid.
from_json_NewUuid(json_data, fresh) == [BookInit(json_data, fresh) EXCEPT !.uuid = fresh]

\* Book.from_json on a dict (the isinstance(str) branch is for raw JSON text).
from_json(json_data, fresh) == BookInit(json_data, fresh)

\* Book.to_dict: the twelve keys, each from the attribute of the same name.
to_dict(book) ==
    [author |-> book.author,
     country |-> book.country,
     imageLink |-> book.imageLink,
     language |-> book.language,
     link |-> book.link,
     pages |-> book.pages,
     title |-> book.title,
     year |-> book.year,
     uuid |-> book.uuid,
     last_read_page |-> book.last_read_page,
     percentage_read |-> book.percentage_read,
     last_read_date |-> book.last_read_date]

\* Book.update_last_read_date with the clock reading t.
update_last_read_date(book, t) == [book EXCEPT !.last_read_date = t]

\* update_last_read_page with the factor 100 left out.
update_last_read_page_NoPercent(book, last_read_page) ==
    [book EXCEPT
        !.last_read_page = last_read_page,
        !.percentage_read =
            IF Truthy(book.pages) THEN Frac(last_read_page, book.pages) ELSE Zero]

\* Book.update_last_read_page.
update_last_read_page(book, last_read_page) ==
    [book EXCEPT
        !.last_read_page = last_read_page,
        !.percentage_read =
            IF Truthy(book.pages) THEN Frac(last_read_page * 100, book.pages) ELSE Zero]

\* ---------------------------------------------------------------- strings
\* sub in s, for two Python str values.
Contains(s, sub) ==
    \E i \in 0..(Len(s) - Len(sub)) : SubSeq(s, i + 1, i + Len(sub)) = sub

\* The decimal digits of a natural number, most significant first (str(int)).
RECURSIVE Digits(_)
Digits(n) == IF n < 10 THEN <<48 + n>> ELSE Digits(n \div 10) \o <<48 + (n % 10)>>

\* The attributes of a Book that hold a str; the others hold a number or None.
StrAttrs == {"author", "country", "imageLink", "language", "link", "title", "uuid"}

\* The attributes a Book instance has (getattr finds them; to_dict exports them).
BookAttrs == REQUIRED_KEYS \cup {"uuid"}

\* The attributes that hold an int or None; last_read_date holds a float or
\* None and percentage_read a float.
IntAttrs == {"pages", "year", "last_read_page"}

\* getattr(book, key, None) is None.
AttrIsNone(book, key) ==
    \/ key \notin BookAttrs
    \/ key \in IntAttrs \cup {"last_read_date"} /\ IsNone(book[key])

\* str(getattr(book, key)) for a search key whose attribute is there and is not
\* None: a str is itself, an int its digits, a float (a whole number of
\* seconds here) its digits followed by ".0".
StrOf(book, key) ==
    IF key \in StrAttrs THEN book[key]
    ELSE IF key \in IntAttrs THEN Digits(book[key])
    ELSE Digits(book[key]) \o <<46, 48>>

\* ------------------------------------------------------------- exceptions
\* The classes of app/controller/exceptions.py.  Its ValueError is a class of
\* its own that hides the built-in of the same name in business.py.
ValidationError == "ValidationError"
BookNotFoundError == "BookNotFoundError"
ValueError == "ValueError"
BookRemovalError == "BookRemovalError"
UpdateError == "UpdateError"

\* The built-in exceptions int() and max() raise.
BuiltinValueError == "builtins.ValueError"
BuiltinTypeError == "builtins.TypeError"

\* "except handler:" catches a raised exception of the handler's class; the
\* classes above are unrelated to one another.
Catches(handler, raised) == raised = handler

\* ---------------------------------------------------------------- Library
\* A backing file: kind "array" holds a JSON array of records, "missing" is no
\* file at the path, "malformed" is a file json.load cannot decode (an empty
\* file is one), "scalar" holds a JSON number, "object" the JSON object {},
\* "strings" a JSON array of strings that are not JSON documents.
ArrayFile(records) == [kind |-> "array", books |-> records]
MissingFile == [kind |-> "missing", books |-> <<>>]
MalformedFile == [kind |-> "malformed", books |-> <<>>]
ScalarFile == [kind |-> "scalar", books |-> <<>>]
ObjectFile == [kind |-> "object", books |-> <<>>]
StringsFile == [kind |-> "strings", books |-> <<>>]

\* The uuid from_json would draw for a record that carries none; the records of
\* the files modelled here all carry one.
NoFreshUuid == <<0>>

\* [Book.from_json(book) for book in data].
RECURSIVE FromJsonAll(_)
FromJsonAll(data) ==
    IF data = <<>> THEN <<>>
    ELSE <<from_json(Head(data), NoFreshUuid)>> \o FromJsonAll(Tail(data))

\* [book.to_dict() for book in books].
RECURSIVE ToDictAll(_)
ToDictAll(books) ==
    IF books = <<>> THEN <<>> ELSE <<to_dict(Head(books))>> \o ToDictAll(Tail(books))

\* Book.from_json on a record: cls(**data) raises the built-in TypeError for a
\* record that lacks a parameter without default or carries a key that is no
\* parameter; "" when the Book is built.
from_json_raises(json_data) ==
    IF REQUIRED_KEYS \subseteq DOMAIN json_data /\ DOMAIN json_data \subseteq BookAttrs
    THEN "" ELSE BuiltinTypeError

\* The exception that leaves Library.load_library, "" when it returns.  Its
\* handler takes JSONDecodeError and FileNotFoundError only: iterating a
\* number raises TypeError, from_json of a str that is no JSON document raises
\* the built-in ValueError, from_json of an ill-keyed record TypeError.
load_raises(file) ==
    IF file.kind = "scalar" THEN BuiltinTypeError
    ELSE IF file.kind = "strings" THEN BuiltinValueError
    ELSE IF file.kind = "array"
            /\ \E i \in DOMAIN file.books : from_json_raises(file.books[i]) # ""
    THEN BuiltinTypeError
    ELSE ""

\* Library.load_library when it returns: the books of the array, and no books
\* when the file is missing (FileNotFoundError), cannot be decoded
\* (JSONDecodeError) or holds an object without keys.
load_library(file) ==
    IF file.kind = "array" THEN FromJsonAll(file.books) ELSE <<>>

\* Library.__init__ on the file found at data_file.  books is the in-memory
\* list, file the content of the backing file as this instance leaves it,
\* loaded the list as first loaded, saved the lists save_library has written.
Library(data_file, file) ==
    [made |-> TRUE, data_file |-> data_file, loaded |-> load_library(file),
     books |-> load_library(file), file |-> file, saved |-> <<>>]

\* No Library instance was constructed for a path.
NoLibrary == [made |-> FALSE]

\* save_library that returns without having written the file.
save_library_NoWrite(lib) == [lib EXCEPT !.saved = Append(lib.saved, lib.books)]

\* Library.save_library: the file is rewritten with the exported books.
save_library(lib) ==
    [lib EXCEPT
        !.file = ArrayFile(ToDictAll(lib.books)),
        !.saved = Append(lib.saved, lib.books)]

\* add_book that saves before it appends.
add_book_SaveFirst(lib, book) ==
    [save_library(lib) EXCEPT !.books = Append(lib.books, book)]

\* add_book that puts the book in front.
add_book_Prepend(lib, book) ==
    save_library([lib EXCEPT !.books = <<book>> \o lib.books])

\* Library.add_book.
add_book(lib, book) == save_library([lib EXCEPT !.books = Append(lib.books, book)])

\* remove_book that changes the list in memory and does not save.
remove_book_NoSave(lib, uuid) ==
    [lib EXCEPT !.books = SelectSeq(lib.books, LAMBDA b : b.uuid # uuid)]

\* Library.remove_book.
remove_book(lib, uuid) ==
    save_library([lib EXCEPT !.books = SelectSeq(lib.books, LAMBDA b : b.uuid # uuid)])

\* list_books that returns the newest book first.
RECURSIVE ToDictAllReversed(_)
ToDictAllReversed(books) ==
    IF books = <<>> THEN <<>>
    ELSE ToDictAllReversed(Tail(books)) \o <<to_dict(Head(books))>>

list_books_NewestFirst(lib) == ToDictAllReversed(lib.books)

\* Library.list_books.
list_books(lib) == ToDictAll(lib.books)

\* The pair of find_books with the None test turned round: a book without a
\* value for the key matches.
Matches_NoneMatches(book, key, value) ==
    IF key = "uuid" THEN book.uuid = value
    ELSE AttrIsNone(book, key) \/ Contains(StrOf(book, key), value)

\* One key/value pair of find_books against one book.
Matches(book, key, value) ==
    IF key = "uuid" THEN book.uuid = value
    ELSE ~AttrIsNone(book, key) /\ Contains(StrOf(book, key), value)

\* The books find_books keeps, in library order: those its key/value pair
\* matches.
Hits(books, key, value) == SelectSeq(books, LAMBDA b : Matches(b, key, value))

\* Library.find_books with a single keyword argument.
find_books(lib, key, value) == ToDictAll(Hits(lib.books, key, value))

\* Index of the first book with this uuid, 0 when there is none.
FirstIndex(books, uuid) ==
    IF \E i \in DOMAIN books : books[i].uuid = uuid
    THEN CHOOSE i \in DOMAIN books :
            /\ books[i].uuid = uuid
            /\ \A j \in 1..(i - 1) : books[j].uuid # uuid
    ELSE 0

\* Library.update_reading_status with the clock reading t: the first book with
\* the uuid is updated and the library saved; nothing happens without a match.
update_reading_status(lib, uuid, last_read_page, t) ==
    LET i == FirstIndex(lib.books, uuid)
    IN IF i = 0 THEN lib
       ELSE save_library(
              [lib EXCEPT !.books[i] =
                  update_last_read_page(update_last_read_date(lib.books[i], t),
                                        last_read_page)])

\* ---------------------------------------------------------- business rules
\* validate_keys: the exception raised, "" when the key passes.  NoTarget is
\* the target None.
NoTarget == "None"

\* validate_keys that lets every key pass.
validate_keys_AllowAll(target) == ""

validate_keys(target) ==
    IF target # NoTarget /\ target \notin ALLOWED_KEYS THEN ValidationError ELSE ""

\* validate_json on a dict: "" when it passes, else the exception with the
\* missing and the extra keys its message names.
validate_json(json_data) ==
    IF DOMAIN json_data = {}
    THEN [raised |-> ValidationError, msg |-> "JSON data is None.",
          missing |-> {}, extra |-> {}]
    ELSE IF DOMAIN json_data # REQUIRED_KEYS
    THEN [raised |-> ValidationError, msg |-> "Invalid JSON.",
          missing |-> REQUIRED_KEYS \ DOMAIN json_data,
          extra |-> DOMAIN json_data \ REQUIRED_KEYS]
    ELSE [raised |-> "", msg |-> "", missing |-> {}, extra |-> {}]

\* ------------------------------------------------------ max() of find_top
\* The value max() compares for a record: book.get(target, float("-inf")),
\* tagged with its Python type.
KeyOf(book, target) ==
    IF target \notin DOMAIN book THEN [type |-> "neginf"]
    ELSE IF target \in StrAttrs THEN [type |-> "str", v |-> book[target]]
    ELSE IF IsNone(book[target]) THEN [type |-> "none"]
    ELSE [type |-> "num", v |-> book[target]]

\* a > b for two str values (by character, a proper prefix being smaller).
RECURSIVE StrGt(_, _)
StrGt(a, b) ==
    IF a = <<>> THEN FALSE
    ELSE IF b = <<>> THEN TRUE
    ELSE IF Head(a) # Head(b) THEN Head(a) > Head(b)
    ELSE StrGt(Tail(a), Tail(b))

\* Python's a > b raises TypeError when an operand is None or when a str meets
\* a number.
GtRaises(a, b) ==
    \/ a.type = "none"
    \/ b.type = "none"
    \/ (a.type = "str") # (b.type = "str")

\* a > b when it does not raise.
Gt(a, b) ==
    IF a.type = "str" THEN StrGt(a.v, b.v)
    ELSE IF a.type = "neginf" THEN FALSE
    ELSE IF b.type = "neginf" THEN TRUE
    ELSE a.v > b.v

\* max(items, key=...) from item i on, best being the largest so far: a later
\* item replaces it only when its value is greater.
RECURSIVE MaxFrom(_, _, _, _)
MaxFrom(items, target, i, best) ==
    IF i > Len(items) THEN [raised |-> "", item |-> best]
    ELSE IF GtRaises(KeyOf(items[i], target), KeyOf(best, target))
    THEN [raised |-> BuiltinTypeError, item |-> best]
    ELSE IF Gt(KeyOf(items[i], target), KeyOf(best, target))
    THEN MaxFrom(items, target, i + 1, items[i])
    ELSE MaxFrom(items, target, i + 1, best)

\* max(books_user, key=lambda book: book.get(target, float("-inf"))) on a
\* non-empty list.
PyMax(items, target) == MaxFrom(items, target, 2, items[1])

\* ------------------------------------------------------------------ state
\* files    the two backing files, by path: "global" is routes.global_json,
\*          "user" is routes.user_json
\* nextUuid the number of uuid4() draws so far, plus one: draw k yields <<k>>
\* last     the operation that has just ended and is being answered: its name,
\*          arguments, the exception it raised ("" for none), the message and
\*          the value returned; Idle between two requests
\* libs     the Library instances of that operation as it left them; they
\*          are dropped with the answer
\* written  per path, the book list of the latest save_library (the list first
\*          loaded from the initial file while there was no save)
\* callers  the requests served at the same time, when the server runs several
\*          (RaceSpec): for each its position, operation, arguments and
\*          Library instance; all idle when requests come one at a time
VARIABLES files, nextUuid, last, libs, written, callers

vars == <<files, nextUuid, last, libs, written, callers>>

Paths == {"global", "user"}

\* The requests that may be in progress together.
Callers == {"a", "b"}

\* A caller that has not started.
IdleCaller == [pc |-> "idle"]

\* ----------------------------------------------------------------- inputs
\* The request body of POST /global/books: title, pages, last_read_page,
\* percentage_read and last_read_date vary, the other fields are fixed.
Body(title, pages, last_read_page, percentage_read, last_read_date) ==
    [author |-> <<84>>, country |-> <<84>>, imageLink |-> <<84>>,
     language |-> <<84>>, link |-> <<84>>, year |-> 1877,
     title |-> title, pages |-> pages, last_read_page |-> last_read_page,
     percentage_read |-> percentage_read, last_read_date |-> last_read_date]

\* A book not yet read; one half read; one without a page count; one of no
\* pages; one read to its last page whose percentage says 0.
UnreadBody == Body(<<65>>, 300, 0, Zero, Null)
HalfReadBody == Body(<<65, 66>>, 300, 150, <<50, 1>>, 0)
NoPagesBody == Body(<<66>>, Null, 0, Zero, Null)
ZeroPagesBody == Body(<<65>>, 0, 0, Zero, 0)
WrongPercentBody == Body(<<66>>, 150, 150, Zero, Null)

WellKeyedBodies == {UnreadBody, NoPagesBody, ZeroPagesBody, WrongPercentBody}

\* Bodies validate_json rejects: the empty object, one without title, one with
\* a key too many.
EmptyBody == <<>>
NoTitleBody == [k \in REQUIRED_KEYS \ {"title"} |-> UnreadBody[k]]
ExtraKeyBody == [k \in REQUIRED_KEYS \cup {"genre"} |-> IF k = "genre" THEN <<84>> ELSE UnreadBody[k]]

JsonBodies == WellKeyedBodies \cup {EmptyBody, NoTitleBody, ExtraKeyBody}

\* The record the global file starts with (data.json ships with the books of
\* the catalogue): a half-read book whose uuid is draw 1.
SeedRecord == to_dict(BookInit(HalfReadBody, <<1>>))

\* A record a user file may hold of a book the catalogue no longer lists: the
\* two libraries are separate files, and add_book_user is given both paths.
OrphanUuid == <<0>>
OrphanRecord == to_dict(BookInit(ZeroPagesBody, OrphanUuid))

\* The uuids a request may name: those drawn so far, one never drawn, and
\* those of the books the user file holds.
UuidInputs ==
    {<<k>> : k \in 1..nextUuid}
       \cup {load_library(files.user)[i].uuid : i \in DOMAIN load_library(files.user)}

\* The page_number a request may carry: an int, or a value int() cannot read.
PageNumbers == {0, 150, 301}
PageInputs == {[isInt |-> TRUE, n |-> k] : k \in PageNumbers} \cup {[isInt |-> FALSE, n |-> 0]}

\* The readings datetime.now().timestamp() may give.
Timestamps == {1, 2}

\* The targets GET /user/books/top/<target> may name.
TopTargets == {"pages", "last_read_date", "title", "genre", "test"}

\* No request is being served.
Idle == [op |-> "idle", args |-> <<>>, raised |-> "", msg |-> "",
         missing |-> {}, extra |-> {}, ret |-> <<>>]

\* ------------------------------------------------------------------- Init
\* The global file holds the catalogue; the user file is an empty array, or is
\* missing, or cannot be decoded.
Init ==
    /\ files \in [Paths -> {ArrayFile(<<>>), ArrayFile(<<SeedRecord>>), MissingFile, MalformedFile}]
    /\ files.global = ArrayFile(<<SeedRecord>>)
    /\ files.user # ArrayFile(<<SeedRecord>>)
    /\ nextUuid = 2
    /\ last = Idle
    /\ libs = [p \in Paths |-> NoLibrary]
    /\ written = [p \in Paths |-> load_library(files[p])]
    /\ callers = [c \in Callers |-> IdleCaller]

\* What an operation ends with: a returned value, or a raised exception with
\* its message (and, from validate_json, the keys the message names).
Return(value) == [raised |-> "", msg |-> "", missing |-> {}, extra |-> {}, ret |-> value]
Raise(class, msg) == [raised |-> class, msg |-> msg, missing |-> {}, extra |-> {}, ret |-> <<>>]

\* An operation ends: its outcome and instances are recorded, and each file is
\* what the instance on it has left there.  drew is whether uuid4() was called.
Done(op, args, outcome, ulib, glib, drew) ==
    LET after == [user |-> ulib, global |-> glib]
    IN /\ last' = [op |-> op, args |-> args, raised |-> outcome.raised,
                   msg |-> outcome.msg, missing |-> outcome.missing,
                   extra |-> outcome.extra, ret |-> outcome.ret]
       /\ libs' = after
       /\ files' = [p \in Paths |-> IF after[p].made THEN after[p].file ELSE files[p]]
       /\ written' = [p \in Paths |->
                        IF after[p].made /\ after[p].saved # <<>>
                        THEN after[p].saved[Len(after[p].saved)]
                        ELSE written[p]]
       /\ nextUuid' = IF drew THEN nextUuid + 1 ELSE nextUuid
       /\ UNCHANGED callers

\* An operation ends in Library.__init__: the exception of load_library leaves
\* the operation, no handler of business.py naming its class.
LoadFailed(op, args, file) ==
    Done(op, args, Raise(load_raises(file), "load_library failed."),
         NoLibrary, NoLibrary, FALSE)

\* ---------------------------------------------------------------- actions
\* business.list_books(library_path).
ListBooks(path) ==
    LET lib == Library(path, files[path])
    IN IF load_raises(files[path]) # ""
       THEN LoadFailed("list_books", [path |-> path], files[path])
       ELSE Done("list_books", [path |-> path], Return(list_books(lib)),
                 IF path = "user" THEN lib ELSE NoLibrary,
                 IF path = "global" THEN lib ELSE NoLibrary, FALSE)

\* The dict comprehension {target: book[target] for book in found if target in
\* book}: every match writes the one key target, so the last match's value
\* stays; the dict is empty when no match carries the key.
Projection(found, target) ==
    LET carrying == SelectSeq(found, LAMBDA d : target \in DOMAIN d)
    IN IF carrying = <<>> THEN <<>>
       ELSE [k \in {target} |-> carrying[Len(carrying)][target]]

\* business.find_book(key, value, library_path, target).
FindBook(key, value, path, target) ==
    LET args == [key |-> key, value |-> value, path |-> path, target |-> target]
        lib == Library(path, files[path])
        ulib == IF path = "user" THEN lib ELSE NoLibrary
        glib == IF path = "global" THEN lib ELSE NoLibrary
        found == find_books(lib, key, value)
    IN IF validate_keys(target) # ""
       THEN Done("find_book", args, Raise(validate_keys(target), "Invalid target."),
                 NoLibrary, NoLibrary, FALSE)
       ELSE IF validate_keys(key) # ""
       THEN Done("find_book", args, Raise(validate_keys(key), "Invalid target."),
                 NoLibrary, NoLibrary, FALSE)
       ELSE IF load_raises(files[path]) # ""
       THEN LoadFailed("find_book", args, files[path])
       ELSE IF found = <<>>
       THEN Done("find_book", args, Raise(BookNotFoundError, "No books found."),
                 ulib, glib, FALSE)
       ELSE IF target # NoTarget
       THEN Done("find_book", args, Return(Projection(found, target)), ulib, glib, FALSE)
       ELSE Done("find_book", args, Return(found), ulib, glib, FALSE)

\* add_book_user without the check for a copy already in the user library.
AddBookUser_NoDupCheck(book_uuid) ==
    LET args == [uuid |-> book_uuid]
        user_library_instance == Library("user", files.user)
        global_library_instance == Library("global", files.global)
        found_global == find_books(global_library_instance, "uuid", book_uuid)
        book_to_add == from_json(found_global[1], <<nextUuid>>)
    IN IF load_raises(files.user) # ""
       THEN LoadFailed("add_book_user", args, files.user)
       ELSE IF load_raises(files.global) # ""
       THEN LoadFailed("add_book_user", args, files.global)
       ELSE IF found_global = <<>>
       THEN Done("add_book_user", args, Raise(BookNotFoundError, "Book not in global."),
                 user_library_instance, global_library_instance, FALSE)
       ELSE /\ Len(user_library_instance.books) <= MaxGlobal
            /\ Done("add_book_user", args, Return(to_dict(book_to_add)),
                    add_book(user_library_instance, book_to_add),
                    global_library_instance, FALSE)

\* add_book_user looking in the global library before the user library.
AddBookUser_GlobalFirst(book_uuid) ==
    LET args == [uuid |-> book_uuid]
        user_library_instance == Library("user", files.user)
        global_library_instance == Library("global", files.global)
        found_user == find_books(user_library_instance, "uuid", book_uuid)
        found_global == find_books(global_library_instance, "uuid", book_uuid)
        book_to_add == from_json(found_global[1], <<nextUuid>>)
    IN IF found_global = <<>>
       THEN Done("add_book_user", args, Raise(BookNotFoundError, "Book not in global."),
                 user_library_instance, global_library_instance, FALSE)
       ELSE IF found_user # <<>>
       THEN Done("add_book_user", args, Raise(ValidationError, "Book already exists."),
                 user_library_instance, global_library_instance, FALSE)
       ELSE Done("add_book_user", args, Return(to_dict(book_to_add)),
                 add_book(user_library_instance, book_to_add),
                 global_library_instance, FALSE)

\* business.add_book_user(book_uuid, global_library_path, user_library_path).
AddBookUser(book_uuid) ==
    LET args == [uuid |-> book_uuid]
        user_library_instance == Library("user", files.user)
        global_library_instance == Library("global", files.global)
        found_user == find_books(user_library_instance, "uuid", book_uuid)
        found_global == find_books(global_library_instance, "uuid", book_uuid)
        book_to_add == from_json(found_global[1], <<nextUuid>>)
    IN IF load_raises(files.user) # ""
       THEN LoadFailed("add_book_user", args, files.user)
       ELSE IF load_raises(files.global) # ""
       THEN LoadFailed("add_book_user", args, files.global)
       ELSE IF found_user # <<>>
       THEN Done("add_book_user", args, Raise(ValidationError, "Book already exists."),
                 user_library_instance, global_library_instance, FALSE)
       ELSE IF found_global = <<>>
       THEN Done("add_book_user", args, Raise(BookNotFoundError, "Book not in global."),
                 user_library_instance, global_library_instance, FALSE)
       ELSE Done("add_book_user", args, Return(to_dict(book_to_add)),
                 add_book(user_library_instance, book_to_add),
                 global_library_instance, FALSE)

\* business.add_book_global(json, global_library_path).
AddBookGlobal(json) ==
    LET args == [json |-> json]
        checked == validate_json(json)
        global_library_instance == Library("global", files.global)
        new_book == BookInit(json, <<nextUuid>>)
    IN IF checked.raised # ""
       THEN Done("add_book_global", args,
                 [Raise(checked.raised, checked.msg) EXCEPT
                     !.missing = checked.missing, !.extra = checked.extra],
                 NoLibrary, NoLibrary, FALSE)
       ELSE IF load_raises(files.global) # ""
       THEN LoadFailed("add_book_global", args, files.global)
       ELSE /\ Len(global_library_instance.books) < MaxGlobal
            /\ Done("add_book_global", args, Return(to_dict(new_book)),
                    NoLibrary, add_book(global_library_instance, new_book), TRUE)

\* business.subtract_book_user(book_uuid, user_library_path).
SubtractBookUser(book_uuid) ==
    LET args == [uuid |-> book_uuid]
        user_library_instance == Library("user", files.user)
        book == find_books(user_library_instance, "uuid", book_uuid)
    IN IF load_raises(files.user) # ""
       THEN LoadFailed("subtract_book_user", args, files.user)
       ELSE IF book = <<>>
       THEN Done("subtract_book_user", args,
                 Raise(BookNotFoundError, "Book not found in the user library."),
                 user_library_instance, NoLibrary, FALSE)
       ELSE Done("subtract_book_user", args, Return(book),
                 remove_book(user_library_instance, book_uuid), NoLibrary, FALSE)

\* find_top_book_user without the check for an empty library: any() of no
\* books is False, so the attribute check answers.
FindTopBookUser_NoEmptyCheck(target) ==
    LET args == [target |-> target]
        user_library_instance == Library("user", files.user)
        books_user == list_books(user_library_instance)
        top == PyMax(books_user, target)
    IN IF validate_keys(target) # ""
       THEN Done("find_top_book_user", args, Raise(validate_keys(target), "Invalid target."),
                 NoLibrary, NoLibrary, FALSE)
       ELSE IF load_raises(files.user) # ""
       THEN LoadFailed("find_top_book_user", args, files.user)
       ELSE IF ~\E i \in DOMAIN books_user : target \in DOMAIN books_user[i]
       THEN Done("find_top_book_user", args,
                 Raise(ValidationError, "No books with the attribute."),
                 user_library_instance, NoLibrary, FALSE)
       ELSE IF top.raised # ""
       THEN Done("find_top_book_user", args, Raise(top.raised, "'>' not supported"),
                 user_library_instance, NoLibrary, FALSE)
       ELSE Done("find_top_book_user", args, Return(top.item),
                 user_library_instance, NoLibrary, FALSE)

\* business.find_top_book_user(user_library_path, target).  The handler
\* "except ValueError" names the class of exceptions.py, so the TypeError of
\* max() passes it.
FindTopBookUser(target) ==
    LET args == [target |-> target]
        user_library_instance == Library("user", files.user)
        books_user == list_books(user_library_instance)
        top == PyMax(books_user, target)
    IN IF validate_keys(target) # ""
       THEN Done("find_top_book_user", args, Raise(validate_keys(target), "Invalid target."),
                 NoLibrary, NoLibrary, FALSE)
       ELSE IF load_raises(files.user) # ""
       THEN LoadFailed("find_top_book_user", args, files.user)
       ELSE IF books_user = <<>>
       THEN Done("find_top_book_user", args,
                 Raise(BookNotFoundError, "No books in the user's library."),
                 user_library_instance, NoLibrary, FALSE)
       ELSE IF ~\E i \in DOMAIN books_user : target \in DOMAIN books_user[i]
       THEN Done("find_top_book_user", args,
                 Raise(ValidationError, "No books with the attribute."),
                 user_library_instance, NoLibrary, FALSE)
       ELSE IF top.raised # ""
       THEN Done("find_top_book_user", args,
                 IF Catches(ValueError, top.raised)
                 THEN Raise(ValidationError, "Error finding the top book.")
                 ELSE Raise(top.raised, "'>' not supported"),
                 user_library_instance, NoLibrary, FALSE)
       ELSE Done("find_top_book_user", args, Return(top.item),
                 user_library_instance, NoLibrary, FALSE)

\* int(page_number): the exception raised, "" when the value reads as an int.
IntRaises(page_number) == IF page_number.isInt THEN "" ELSE BuiltinValueError

\* Lines 283-288 of change_book_page_user: the exception that leaves the try
\* statement, "" when none does.  The handler names exceptions.ValueError: an
\* exception it catches is replaced by ValidationError, any other passes.
PageCheck(page_number) ==
    LET inTry == IF IntRaises(page_number) # "" THEN IntRaises(page_number)
                 ELSE IF page_number.n <= 0 THEN ValidationError
                 ELSE ""
    IN IF inTry # "" /\ Catches(ValueError, inTry) THEN ValidationError ELSE inTry

PageCheckMsg(page_number) ==
    IF IntRaises(page_number) # ""
    THEN IF Catches(ValueError, IntRaises(page_number))
         THEN "Page number must be an integer."
         ELSE "invalid literal for int()"
    ELSE "Page number must be a positive integer."

\* The range check accepting one page past the last.
ExceedsTotal_OffByOne(page_number, total_pages) ==
    ~IsNone(total_pages) /\ page_number > total_pages + 1

\* The range check of change_book_page_user.
ExceedsTotal(page_number, total_pages) ==
    ~IsNone(total_pages) /\ page_number > total_pages

\* change_book_page_user updating the book before it looks at the book's
\* page count.
ChangeBookPageUser_UpdateFirst(book_uuid, page_input) ==
    LET args == [uuid |-> book_uuid, page |-> page_input]
        page_number == page_input.n
        user_library_instance == Library("user", files.user)
        books == find_books(user_library_instance, "uuid", book_uuid)
    IN IF PageCheck(page_input) # ""
       THEN Done("change_book_page_user", args,
                 Raise(PageCheck(page_input), PageCheckMsg(page_input)),
                 NoLibrary, NoLibrary, FALSE)
       ELSE IF books = <<>>
       THEN Done("change_book_page_user", args,
                 Raise(BookNotFoundError, "No book with the specified UUID."),
                 user_library_instance, NoLibrary, FALSE)
       ELSE \E t \in Timestamps :
              LET updated == update_reading_status(user_library_instance, book_uuid,
                                                   page_number, t)
              IN IF ExceedsTotal(page_number, books[1].pages)
                 THEN Done("change_book_page_user", args,
                           Raise(ValidationError, "Page number exceeds total pages of the book."),
                           updated, NoLibrary, FALSE)
                 ELSE Done("change_book_page_user",
                           [uuid |-> book_uuid, page |-> page_input, now |-> t],
                           Return(books), updated, NoLibrary, FALSE)

\* business.change_book_page_user(book_uuid, page_number, user_library_path).
ChangeBookPageUser(book_uuid, page_input) ==
    LET args == [uuid |-> book_uuid, page |-> page_input]
        page_number == page_input.n
        user_library_instance == Library("user", files.user)
        books == find_books(user_library_instance, "uuid", book_uuid)
        book == books[1]
        total_pages == book.pages
    IN IF PageCheck(page_input) # ""
       THEN Done("change_book_page_user", args,
                 Raise(PageCheck(page_input), PageCheckMsg(page_input)),
                 NoLibrary, NoLibrary, FALSE)
       ELSE IF load_raises(files.user) # ""
       THEN LoadFailed("change_book_page_user", args, files.user)
       ELSE IF books = <<>>
       THEN Done("change_book_page_user", args,
                 Raise(BookNotFoundError, "No book with the specified UUID."),
                 user_library_instance, NoLibrary, FALSE)
       ELSE IF "pages" \notin DOMAIN book
       THEN Done("change_book_page_user", args,
                 Raise(ValidationError, "The book does not have a 'pages' attribute."),
                 user_library_instance, NoLibrary, FALSE)
       ELSE IF ExceedsTotal(page_number, total_pages)
       THEN Done("change_book_page_user", args,
                 Raise(ValidationError, "Page number exceeds total pages of the book."),
                 user_library_instance, NoLibrary, FALSE)
       ELSE \E t \in Timestamps :
              LET updated == update_reading_status(user_library_instance, book_uuid,
                                                   page_number, t)
                  updated_book == find_books(updated, "uuid", book_uuid)[1]
              IN IF updated_book.last_read_page # page_number
                 THEN Done("change_book_page_user", args,
                           Raise(UpdateError, "Page update failed."),
                           updated, NoLibrary, FALSE)
                 ELSE Done("change_book_page_user",
                           [uuid |-> book_uuid, page |-> page_input, now |-> t],
                           Return(books), updated, NoLibrary, FALSE)

\* The route answers the request: the operation's result or error goes to the
\* caller and its Library instances are dropped.  Here the requests come one
\* at a time, the next operation starting after this; RaceSpec has two at once.
Respond ==
    /\ last # Idle
    /\ last' = Idle
    /\ libs' = [p \in Paths |-> NoLibrary]
    /\ UNCHANGED <<files, nextUuid, written, callers>>

\* ------------------------------------------------------------------ routes
\* The paths routes.py gives the business operations.
global_json == "global"
user_json == "user"

\* The status a search route answers with: 200 with the result, 400 for a
\* ValidationError, 404 for a BookNotFoundError; Flask answers 500 for an
\* exception the route does not catch.
status_code(raised) ==
    IF raised = "" THEN 200
    ELSE IF raised = ValidationError THEN 400
    ELSE IF raised = BookNotFoundError THEN 404
    ELSE 500

\* GET /global/books/search/<key>/<value>[/<target>].
search_book_global(key, value, target) == FindBook(key, value, global_json, target)

\* GET /user/books/search/<key>/<value>[/<target>]: the route passes
\* global_json to find_book, as search_book_global does.
search_book_user(key, value, target) == FindBook(key, value, global_json, target)

\* ------------------------------------------------------------ specification
\* The searches GET .../search/<key>/<value>[/<target>] may ask for.
Search(key, value, path, target) ==
    [key |-> key, value |-> value, path |-> path, target |-> target]

Searches ==
    {Search("title", <<65>>, "global", NoTarget),
     Search("title", <<>>, "user", NoTarget),
     Search("title", <<66>>, "user", "title"),
     Search("uuid", <<1>>, "user", "genre"),
     Search("pages", <<51, 48>>, "global", "pages"),
     Search("pages", <<>>, "user", NoTarget),
     Search("test", <<65>>, "global", NoTarget),
     Search("title", <<65>>, "user", "test")}

\* A request: one business operation, run from start to end.
Request ==
    \/ \E path \in Paths : ListBooks(path)
    \/ \E s \in Searches : FindBook(s.key, s.value, s.path, s.target)
    \/ \E s \in Searches : search_book_global(s.key, s.value, s.target)
    \/ \E s \in Searches : search_book_user(s.key, s.value, s.target)
    \/ \E book_uuid \in UuidInputs : AddBookUser(book_uuid)
    \/ \E json \in JsonBodies : AddBookGlobal(json)
    \/ \E book_uuid \in UuidInputs : SubtractBookUser(book_uuid)
    \/ \E target \in TopTargets : FindTopBookUser(target)
    \/ \E book_uuid \in UuidInputs, page_input \in PageInputs :
          ChangeBookPageUser(book_uuid, page_input)

Next ==
    \/ last = Idle /\ Request
    \/ Respond

Spec == Init /\ [][Next]_vars

\* ------------------------------- specification: a book the catalogue lost
\* The requests of Spec, starting with a user file that holds a book the
\* global file does not list.
OrphanInit ==
    /\ files = [p \in Paths |-> IF p = "user" THEN ArrayFile(<<OrphanRecord>>)
                                             ELSE ArrayFile(<<SeedRecord>>)]
    /\ nextUuid = 2
    /\ last = Idle
    /\ libs = [p \in Paths |-> NoLibrary]
    /\ written = [p \in Paths |-> load_library(files[p])]
    /\ callers = [c \in Callers |-> IdleCaller]

OrphanSpec == OrphanInit /\ [][Next]_vars

\* ------------------------------------------- specification: files as found
\* Records a file may hold besides the catalogue's: a second book, a record
\* with a title and nothing else, a book record with the extra key genre.
UnreadRecord == to_dict(BookInit(UnreadBody, <<2>>))
TitleOnlyRecord == [title |-> <<65>>]
ExtraKeyRecord == [k \in BookAttrs \cup {"genre"} |->
                     IF k = "genre" THEN <<84>> ELSE SeedRecord[k]]

\* What Library.load_library may find at a path when the files were put there
\* by hand or by another program.
LoadFiles ==
    {ArrayFile(<<>>), ArrayFile(<<SeedRecord>>), ArrayFile(<<SeedRecord, UnreadRecord>>),
     ArrayFile(<<TitleOnlyRecord>>), ArrayFile(<<SeedRecord, ExtraKeyRecord>>),
     MissingFile, MalformedFile, ScalarFile, ObjectFile, StringsFile}

LoadInit ==
    /\ files \in [Paths -> LoadFiles]
    /\ nextUuid = 3
    /\ last = Idle
    /\ libs = [p \in Paths |-> NoLibrary]
    /\ written = [p \in Paths |->
                    IF load_raises(files[p]) = "" THEN load_library(files[p]) ELSE <<>>]
    /\ callers = [c \in Callers |-> IdleCaller]

\* GET /global/books and GET /user/books on files as found.
LoadNext ==
    \/ last = Idle /\ \E path \in Paths : ListBooks(path)
    \/ Respond

LoadSpec == LoadInit /\ [][LoadNext]_vars

\* ---------------------------------- specification: requests served together
\* Two requests on the user library run at the same time.  A request takes
\* three steps: it constructs its Library instances and checks its arguments
\* (RaceLoad); it changes its list in memory and rewrites the file (RaceWrite,
\* the list being its own and the write of the file taken as one step); it
\* looks at its own instance again and returns (RaceReturn).  No step takes a
\* lock.
RacePages == {150, 301}

\* The number of RaceWrite steps taken so far.
Writes == Cardinality({c \in Callers : callers[c].pc \in {"written", "returned"}})

\* The caller's request ends before any write, with an exception.
Refused(c, op, uuid, page, class) ==
    callers' = [callers EXCEPT ![c] =
        [pc |-> "refused", op |-> op, uuid |-> uuid, page |-> page, raised |-> class]]

\* The caller's request goes on with the instance it constructed.
Loaded(c, op, uuid, page, lib, book) ==
    callers' = [callers EXCEPT ![c] =
        [pc |-> "loaded", op |-> op, uuid |-> uuid, page |-> page, lib |-> lib,
         book |-> book, loadedAfter |-> Writes]]

\* add_book_user, subtract_book_user and change_book_page_user up to the
\* point where the Library is about to be changed.
RaceLoad(c, op, uuid, page) ==
    LET user_library_instance == Library("user", files.user)
        global_library_instance == Library("global", files.global)
        found_user == find_books(user_library_instance, "uuid", uuid)
        found_global == find_books(global_library_instance, "uuid", uuid)
    IN /\ callers[c].pc = "idle"
       /\ IF op = "add_book_user"
          THEN IF found_user # <<>> THEN Refused(c, op, uuid, page, ValidationError)
               ELSE IF found_global = <<>> THEN Refused(c, op, uuid, page, BookNotFoundError)
               ELSE Loaded(c, op, uuid, page, user_library_instance,
                           <<from_json(found_global[1], <<nextUuid>>)>>)
          ELSE IF op = "subtract_book_user"
          THEN IF found_user = <<>> THEN Refused(c, op, uuid, page, BookNotFoundError)
               ELSE Loaded(c, op, uuid, page, user_library_instance, found_user)
          ELSE IF found_user = <<>> THEN Refused(c, op, uuid, page, BookNotFoundError)
               ELSE IF ExceedsTotal(page, found_user[1].pages)
               THEN Refused(c, op, uuid, page, ValidationError)
               ELSE Loaded(c, op, uuid, page, user_library_instance, found_user)
       /\ UNCHANGED <<files, nextUuid, last, libs, written>>

\* The instance after the caller's change: add_book, remove_book or
\* update_reading_status with the clock reading t.
Changed(caller, t) ==
    IF caller.op = "add_book_user" THEN add_book(caller.lib, caller.book[1])
    ELSE IF caller.op = "subtract_book_user" THEN remove_book(caller.lib, caller.uuid)
    ELSE update_reading_status(caller.lib, caller.uuid, caller.page, t)

\* A write that first loads the file again and changes what it finds there.
RaceWrite_Reload(c) ==
    /\ callers[c].pc = "loaded"
    /\ \E t \in Timestamps :
          LET changed == Changed([callers[c] EXCEPT !.lib = Library("user", files.user)], t)
          IN /\ callers' = [callers EXCEPT ![c] =
                    [callers[c] EXCEPT !.pc = "written", !.lib = changed] @@
                    [writeNo |-> Writes + 1, now |-> t]]
             /\ files' = [files EXCEPT !.user = changed.file]
             /\ written' = [written EXCEPT !.user = changed.books]
    /\ UNCHANGED <<nextUuid, last, libs>>

\* The caller changes its list and save_library rewrites the file with it.
RaceWrite(c) ==
    /\ callers[c].pc = "loaded"
    /\ \E t \in Timestamps :
          LET changed == Changed(callers[c], t)
          IN /\ callers' = [callers EXCEPT ![c] =
                    [callers[c] EXCEPT !.pc = "written", !.lib = changed] @@
                    [writeNo |-> Writes + 1, now |-> t]]
             /\ files' = [files EXCEPT !.user = changed.file]
             /\ written' = [written EXCEPT !.user = changed.books]
    /\ UNCHANGED <<nextUuid, last, libs>>

\* The end of the operation: change_book_page_user asks its instance for the
\* book again and compares last_read_page; the others return.
RaceReturn(c) ==
    LET caller == callers[c]
        updated_books == find_books(caller.lib, "uuid", caller.uuid)
    IN /\ caller.pc = "written"
       /\ callers' = [callers EXCEPT ![c] =
              [caller EXCEPT !.pc = "returned"] @@
              [raised |-> IF caller.op = "change_book_page_user"
                             /\ updated_books[1].last_read_page # caller.page
                          THEN UpdateError ELSE ""]]
       /\ UNCHANGED <<files, nextUuid, last, libs, written>>

\* The user library holds none, one or both books of the catalogue.
RaceInit ==
    /\ files \in [Paths -> {ArrayFile(<<>>), ArrayFile(<<SeedRecord>>),
                            ArrayFile(<<SeedRecord, UnreadRecord>>)}]
    /\ files.global = ArrayFile(<<SeedRecord, UnreadRecord>>)
    /\ nextUuid = 3
    /\ last = Idle
    /\ libs = [p \in Paths |-> NoLibrary]
    /\ written = [p \in Paths |-> load_library(files[p])]
    /\ callers = [c \in Callers |-> IdleCaller]

RaceOps == {"add_book_user", "subtract_book_user", "change_book_page_user"}

RaceNext ==
    \/ \E c \in Callers, op \in RaceOps, uuid \in UuidInputs, page \in RacePages :
          RaceLoad(c, op, uuid, IF op = "change_book_page_user" THEN page ELSE 0)
    \/ \E c \in Callers : RaceWrite(c)
    \/ \E c \in Callers : RaceReturn(c)

RaceSpec == RaceInit /\ [][RaceNext]_vars

\* ------------------------------------------------------------------ claims
\* The books a fresh Library on a path would hold.
Stored(path) == load_library(files[path])

\* No two books of the list share a uuid.
UuidsDistinct(books) ==
    \A i, j \in DOMAIN books : i # j => books[i].uuid # books[j].uuid

\* C1: after a mutating Library operation (add_book, remove_book,
\* update_reading_status) has completed, the document at the library's backing
\* path decodes to exactly the library's in-memory list of books: the same
\* books with the same field values in the same order.
C1_FileMatchesMemory ==
    \A p \in Paths :
        libs[p].made /\ libs[p].saved # <<>> => Stored(p) = libs[p].books

\* C1 witness: a page update has rewritten a user file of two books.
C1_Witness ==
    /\ last.op = "change_book_page_user"
    /\ last.raised = ""
    /\ libs.user.saved # <<>>
    /\ Len(libs.user.books) = 2

\* C2: for one caller issuing operations one after another, the Library each
\* operation loads equals the list written by the latest earlier save on that
\* path, or the list of the initial file when nothing was saved yet.
C2_ReloadSeesWrites ==
    [][\A p \in Paths : libs'[p].made => libs'[p].loaded = written[p]]_vars

\* C2 witness: list_books on the user path returns two books, which earlier
\* operations wrote (the user file starts without books).
C2_Witness ==
    /\ last.op = "list_books"
    /\ last.args.path = "user"
    /\ Len(last.ret) = 2
    /\ libs.user.loaded = written.user

C4_PercentageInvariant ==
    \A p \in Paths : \A i \in DOMAIN Stored(p) :
        LET b == Stored(p)[i]
        IN IF ~IsNone(b.pages) /\ b.pages > 0
           THEN b.percentage_read = Frac(b.last_read_page * 100, b.pages)
           ELSE b.percentage_read = Zero

\* The user library before the step holds a book with this uuid.
InUser(uuid) == FirstIndex(Stored("user"), uuid) # 0
InGlobal(uuid) == FirstIndex(Stored("global"), uuid) # 0

\* The number of books of the list with this uuid.
CountUuid(books, uuid) == Cardinality({i \in DOMAIN books : books[i].uuid = uuid})

\* A step that runs the operation op.
Runs(op) == last = Idle /\ last'.op = op

\* C5: add_book_user(X) with X in the global library and not in the user
\* library succeeds, and the user library is then the old one with the global
\* book of uuid X appended, so it holds exactly one book with uuid X; with X
\* already in the user library (as after that call) it fails with the
\* duplicate error, ValidationError "Book already exists in the user's
\* library."
C5_AddToUserThenDuplicate ==
    [][Runs("add_book_user") =>
         LET X == last'.args.uuid
             g == Stored("global")[FirstIndex(Stored("global"), X)]
         IN /\ InGlobal(X) /\ ~InUser(X) =>
                 /\ last'.raised = ""
                 /\ load_library(files'.user) = Append(Stored("user"), g)
                 /\ libs'.user.books = Append(Stored("user"), g)
                 /\ CountUuid(load_library(files'.user), X) = 1
            /\ InUser(X) =>
                 /\ last'.raised = ValidationError
                 /\ last'.msg = "Book already exists."
                 /\ files' = files]_vars

\* C5 witness: add_book_user was called for a book the user library, of two
\* books, already holds, and was refused.
C5_Witness ==
    /\ last.op = "add_book_user"
    /\ last.raised = ValidationError
    /\ CountUuid(Stored("user"), last.args.uuid) = 1
    /\ Len(Stored("user")) = 2

\* C6: change_book_page_user(uuid, n) on a user-library book with pages = P and
\* 1 <= n <= P succeeds; the stored book then has last_read_page = n,
\* percentage_read = n / P * 100 (50 for n = 150, P = 300) and last_read_date
\* = the clock reading of the call, and every other field of it, every other
\* book and the global file are as before.
C6_ChangePageUpdates ==
    [][Runs("change_book_page_user") /\ last'.args.page.isInt =>
         LET n == last'.args.page.n
             i == FirstIndex(Stored("user"), last'.args.uuid)
             P == Stored("user")[i].pages
         IN i # 0 /\ ~IsNone(P) /\ 1 <= n /\ n <= P =>
              /\ last'.raised = ""
              /\ load_library(files'.user) =
                    [Stored("user") EXCEPT
                        ![i].last_read_page = n,
                        ![i].percentage_read = Frac(n * 100, P),
                        ![i].last_read_date = last'.args.now]
              /\ libs'.user.books = load_library(files'.user)
              /\ n = 150 /\ P = 300 =>
                    load_library(files'.user)[i].percentage_read = <<50, 1>>
              /\ files'.global = files.global]_vars

\* C6 witness: page 150 of a 300-page book was recorded in a user library of
\* two books.
C6_Witness ==
    /\ last.op = "change_book_page_user"
    /\ last.raised = ""
    /\ last.args.page.n = 150
    /\ Len(Stored("user")) = 2
    /\ \E i \in DOMAIN Stored("user") :
          /\ Stored("user")[i].uuid = last.args.uuid
          /\ Stored("user")[i].pages = 300
          /\ Stored("user")[i].percentage_read = <<50, 1>>

\* C7: change_book_page_user(uuid, n) with a positive int n fails with
\* BookNotFoundError when no user-library book has the uuid, whatever n is
\* (the lookup comes before the range check); with the book there, pages = P
\* and n > P, it fails with ValidationError.  Neither writes a file.
C7_NotFoundBeforeRange ==
    [][Runs("change_book_page_user") /\ last'.args.page.isInt /\ last'.args.page.n > 0 =>
         LET n == last'.args.page.n
             i == FirstIndex(Stored("user"), last'.args.uuid)
         IN /\ i = 0 => last'.raised = BookNotFoundError /\ files' = files
            /\ i # 0 /\ ~IsNone(Stored("user")[i].pages) /\ n > Stored("user")[i].pages =>
                 /\ last'.raised = ValidationError
                 /\ last'.msg = "Page number exceeds total pages of the book."
                 /\ files' = files]_vars

\* C7 witness: page 301 of a 300-page book of the user library was refused.
C7_Witness ==
    /\ last.op = "change_book_page_user"
    /\ last.raised = ValidationError
    /\ last.args.page.n = 301
    /\ \E i \in DOMAIN Stored("user") :
          Stored("user")[i].uuid = last.args.uuid /\ Stored("user")[i].pages = 300

\* C8: change_book_page_user fails with ValidationError for every page_number
\* that is not a positive integer: one that cannot be read as an integer and
\* an integer <= 0 give the same kind of error.  (The handler written for the
\* first case names exceptions.ValueError, which int() never raises.)
C8_BadPageIsValidationError ==
    last.op = "change_book_page_user" /\ (~last.args.page.isInt \/ last.args.page.n <= 0)
        => last.raised = ValidationError

\* C9: subtract_book_user(uuid) for a uuid in the user library returns the
\* record as it was, and the user library, in memory and on file, is then the
\* old one without the books of that uuid, the others in their order; for a
\* uuid that is not there (as in a repeated call) it fails with
\* BookNotFoundError and writes nothing.
C9_RemoveFromUser ==
    [][Runs("subtract_book_user") =>
         LET X == last'.args.uuid
             i == FirstIndex(Stored("user"), X)
             rest == SelectSeq(Stored("user"), LAMBDA b : b.uuid # X)
         IN /\ i # 0 =>
                 /\ last'.raised = ""
                 /\ last'.ret = <<to_dict(Stored("user")[i])>>
                 /\ load_library(files'.user) = rest
                 /\ libs'.user.books = rest
                 /\ CountUuid(load_library(files'.user), X) = 0
                 /\ files'.global = files.global
            /\ i = 0 => last'.raised = BookNotFoundError /\ files' = files]_vars

\* C9 witness: the first of two user-library books was removed and the other
\* one stays.
C9_Witness ==
    /\ last.op = "subtract_book_user"
    /\ last.raised = ""
    /\ Len(Stored("user")) = 1
    /\ Stored("user")[1].uuid[1] > last.args.uuid[1]

\* The value find_top_book_user is said to compare: a book without a value
\* for the target counts as minus infinity.
Rank(book, target) ==
    IF KeyOf(book, target).type = "none" THEN [type |-> "neginf"] ELSE KeyOf(book, target)

\* C10: find_top_book_user(target) on a non-empty user library, for an allowed
\* target the records carry, returns a book whose target value is the maximum
\* over the library, and of several books with that maximum the first in
\* library order.  (max() raises TypeError when it compares a None.)
C10_TopIsFirstMaximum ==
    last.op = "find_top_book_user" /\ last.args.target \in ALLOWED_KEYS \cap BookAttrs
        /\ Stored("user") # <<>>
        => /\ last.raised = ""
           /\ \E i \in DOMAIN Stored("user") :
                 /\ last.ret = to_dict(Stored("user")[i])
                 /\ \A j \in DOMAIN Stored("user") :
                       /\ ~Gt(Rank(Stored("user")[j], last.args.target),
                              Rank(Stored("user")[i], last.args.target))
                       /\ j < i => Gt(Rank(Stored("user")[i], last.args.target),
                                      Rank(Stored("user")[j], last.args.target))

\* C11: find_top_book_user("last_read_date") on a user library where some
\* books have last_read_date set and others have None returns the book with
\* the greatest timestamp and ignores the books without one; when every book
\* lacks it the call fails with ValidationError, never with another error and
\* never by returning a book.  (to_dict exports last_read_date: None, so the
\* attribute check passes and max() compares None.)
C11_TopLastReadDate ==
    last.op = "find_top_book_user" /\ last.args.target = "last_read_date"
        /\ Stored("user") # <<>>
        => LET books == Stored("user")
               dated == {i \in DOMAIN books : ~IsNone(books[i].last_read_date)}
           IN IF dated = {}
              THEN last.raised = ValidationError
              ELSE /\ last.raised = ""
                   /\ \E i \in dated :
                         /\ last.ret = to_dict(books[i])
                         /\ \A j \in dated :
                               books[j].last_read_date <= books[i].last_read_date

\* C12: find_top_book_user with a target of the allow-list fails with
\* BookNotFoundError whenever the user library is empty, also when its file is
\* missing or cannot be decoded; with a target outside the allow-list it
\* fails with ValidationError whatever the library holds.
C12_TopOnEmptyOrBadTarget ==
    [][Runs("find_top_book_user") =>
         LET target == last'.args.target
         IN /\ target \notin ALLOWED_KEYS => last'.raised = ValidationError
            /\ target \in ALLOWED_KEYS /\ Stored("user") = <<>> =>
                  last'.raised = BookNotFoundError]_vars

\* C12 witness: the top book was asked of a user library whose file is
\* missing, and the answer is BookNotFoundError.
C12_Witness ==
    /\ last.op = "find_top_book_user"
    /\ last.args.target = "last_read_date"
    /\ last.raised = BookNotFoundError
    /\ files.user = MissingFile

\* The allow-list as the interface description gives it.
SearchAllowList ==
    {"pages", "year", "title", "author", "uuid", "genre", "last_read_date", "language"}

\* Keys a caller may pass to validate_keys.
KeyInputs == SearchAllowList \cup {NoTarget, "test", "country", "percentage_read", ""}

\* C13: validate_keys fails with ValidationError exactly when the key is not
\* None and not one of pages, year, title, author, uuid, genre, last_read_date,
\* language; find_book applies it to the search key and to the target before
\* it loads the library, so a key or target outside the list is refused
\* whatever the library holds.
C13_KeysValidatedFirst ==
    [][Runs("find_book") =>
         LET key == last'.args.key
             target == last'.args.target
             refused == key \notin SearchAllowList
                           \/ (target # NoTarget /\ target \notin SearchAllowList)
         IN /\ \A k \in KeyInputs :
                  (validate_keys(k) = ValidationError)
                      <=> (k # NoTarget /\ k \notin SearchAllowList)
            /\ (last'.raised = ValidationError) <=> refused
            /\ refused => /\ \A p \in Paths : ~libs'[p].made
                          /\ files' = files]_vars

\* C13 witness: a search of the user library by title, which a book there
\* matches, was refused for its target "test".
C13_Witness ==
    /\ last.op = "find_book"
    /\ last.raised = ValidationError
    /\ last.args.key = "title"
    /\ last.args.target = "test"
    /\ Hits(Stored(last.args.path), "title", last.args.value) # <<>>

\* C14: find_books on a field other than uuid with the query v returns, in
\* library order, exactly the books whose field is not None and whose str()
\* contains v (case-sensitive); so a search for "" by title returns every
\* book (each has a title), and find_book fails with BookNotFoundError exactly
\* when no book matches.
C14_SubstringSearch ==
    [][Runs("find_book") /\ last'.raised # ValidationError /\ last'.args.key # "uuid" =>
         LET key == last'.args.key
             v == last'.args.value
             books == Stored(last'.args.path)
             expected == SelectSeq(books, LAMBDA b :
                             ~AttrIsNone(b, key) /\ Contains(StrOf(b, key), v))
         IN /\ (last'.raised = BookNotFoundError) <=> (expected = <<>>)
            /\ expected # <<>> => last'.raised = ""
            /\ expected # <<>> /\ last'.args.target = NoTarget =>
                  last'.ret = ToDictAll(expected)
            /\ find_books(libs'[last'.args.path], key, v) = ToDictAll(expected)
            /\ key = "title" /\ v = <<>> => expected = books]_vars

\* C14 witness: a search of the user library by pages for "" found one of its
\* two books, the other having no page count.
C14_Witness ==
    /\ last.op = "find_book"
    /\ last.args.key = "pages"
    /\ last.args.value = <<>>
    /\ last.raised = ""
    /\ Len(last.ret) = 1
    /\ Len(Stored("user")) = 2

\* The key set add_book_global requires, as the interface description gives it.
RequiredSet ==
    {"author", "country", "imageLink", "language", "link", "pages", "title", "year",
     "last_read_page", "percentage_read", "last_read_date"}

\* The step has refused the record with ValidationError, its message naming
\* the keys missing from the record and the keys it has too many.
RefusedNaming(json) ==
    /\ last'.raised = ValidationError
    /\ last'.missing = RequiredSet \ DOMAIN json
    /\ last'.extra = DOMAIN json \ RequiredSet
    /\ files' = files

\* The step has appended one book to the global library, with the fields of
\* the record and a uuid no book there had, and has returned it.
AddedToGlobal(json) ==
    LET before == Stored("global")
        after == load_library(files'.global)
    IN /\ last'.raised = ""
       /\ Len(after) = Len(before) + 1
       /\ SubSeq(after, 1, Len(before)) = before
       /\ \A k \in RequiredSet : after[Len(after)][k] = json[k]
       /\ \A i \in DOMAIN before : before[i].uuid # after[Len(after)].uuid
       /\ after[Len(after)].uuid # <<>>
       /\ last'.ret = to_dict(after[Len(after)])
       /\ libs'.global.books = after
       /\ files'.user = files.user

\* C15: add_book_global fails with ValidationError naming the missing and the
\* extra keys whenever the record's key set differs from the required set;
\* with exactly that key set it appends exactly one new book at the end of
\* the global library, with a fresh uuid no book there has.  (validate_json
\* answers the empty record with "JSON data is None.", which names no key.)
C15_AddToGlobalValidates ==
    [][Runs("add_book_global") =>
         LET json == last'.args.json
         IN IF DOMAIN json # RequiredSet THEN RefusedNaming(json) ELSE AddedToGlobal(json)]_vars

\* The file holds a JSON array of book records.
WellFormedArray(file) ==
    /\ file.kind = "array"
    /\ \A i \in DOMAIN file.books : DOMAIN file.books[i] = BookAttrs

\* C16: loading a Library never fails: when the backing file is missing,
\* empty, or does not hold a well-formed array of book records, the library
\* loaded is empty and list_books on it returns an empty list without error.
\* (load_library catches JSONDecodeError and FileNotFoundError only.)
C16_LoadNeverFails ==
    last.op = "list_books" =>
        /\ last.raised = ""
        /\ ~WellFormedArray(files[last.args.path]) => last.ret = <<>>

\* The operations that only read.
ReadOnlyOps == {"list_books", "find_book", "find_top_book_user"}

\* C17: list_books, find_book and find_top_book_user change neither the list
\* in memory nor the backing files, and list_books returns the books of the
\* file in file order; so two list_books calls with only searches between
\* them return the same list.
C17_ReadsChangeNothing ==
    [][/\ last = Idle /\ last'.op \in ReadOnlyOps =>
            /\ files' = files
            /\ written' = written
            /\ \A p \in Paths : libs'[p].made =>
                  /\ libs'[p].books = Stored(p)
                  /\ libs'[p].saved = <<>>
            /\ last'.op = "list_books" =>
                  /\ last'.raised = ""
                  /\ last'.ret = ToDictAll(Stored(last'.args.path))
       /\ last' = Idle => files' = files]_vars

\* C17 witness: list_books returns the two books of the user library in the
\* order they were added, the book of the second draw before the catalogue's.
C17_Witness ==
    /\ last.op = "list_books"
    /\ last.args.path = "user"
    /\ Len(last.ret) = 2
    /\ last.ret[1].uuid = <<2>>
    /\ last.ret[2].uuid = <<1>>

\* A field set with a uuid given.
WithUuid(body, uuid) == [k \in BookAttrs |-> IF k = "uuid" THEN uuid ELSE body[k]]

\* Field sets a book is built from: without uuid, with one, with the empty one.
FieldSets ==
    WellKeyedBodies \cup {HalfReadBody}
        \cup {WithUuid(HalfReadBody, <<7>>), WithUuid(NoPagesBody, <<>>)}

\* C18: for every book b built from a valid field set, from_json(to_dict(b))
\* equals b field for field, uuid included (from_json draws no new one) and
\* the three reading-progress fields included; checked for the books of both
\* libraries and for books built from the field sets above.
C18_RoundTrip ==
    /\ \A p \in Paths : \A i \in DOMAIN Stored(p) :
          from_json(to_dict(Stored(p)[i]), <<nextUuid>>) = Stored(p)[i]
    /\ \A p \in Paths : libs[p].made => \A i \in DOMAIN libs[p].books :
          from_json(to_dict(libs[p].books[i]), <<nextUuid>>) = libs[p].books[i]
    /\ \A data \in FieldSets :
          LET b == BookInit(data, <<nextUuid>>)
          IN /\ from_json(to_dict(b), <<nextUuid + 1>>) = b
             /\ b.uuid # <<>>

\* C18 witness: a book whose page was changed (last_read_page 150, a
\* last_read_date of the clock) has been saved, loaded again and listed.
C18_Witness ==
    /\ last.op = "list_books"
    /\ last.args.path = "user"
    /\ \E i \in DOMAIN last.ret :
          /\ last.ret[i].last_read_page = 150
          /\ last.ret[i].last_read_date = 2
          /\ last.ret[i].percentage_read = <<50, 1>>
          /\ from_json(last.ret[i], <<nextUuid>>) = Stored("user")[i]

\* The book of this uuid in a list: a list of one book, or of none.
BookOf(books, uuid) == Hits(books, "uuid", uuid)

\* The caller has rewritten the file.
HasWritten(c) == callers[c].pc \in {"written", "returned"}

\* Both callers loaded the file before either wrote it, first wrote it first
\* and second wrote it after.
BothLoadedThenWrote(first, second) ==
    /\ first # second
    /\ HasWritten(first) /\ HasWritten(second)
    /\ callers[first].loadedAfter = 0 /\ callers[second].loadedAfter = 0
    /\ callers[first].writeNo = 1 /\ callers[second].writeNo = 2

\* C19: two callers each run load, change, full rewrite on the same file
\* without a lock.  When both loads come before both writes, the file ends
\* equal to the list of the caller that wrote last; the change of the caller
\* that wrote first is lost (its book is in the file as it was when loaded,
\* not as that caller left it) and the two results are not merged.
C19_LastWriterWins ==
    \A first, second \in Callers :
        BothLoadedThenWrote(first, second) =>
            LET X == callers[first].uuid
            IN /\ files.user = callers[second].lib.file
               /\ Stored("user") = callers[second].lib.books
               /\ callers[second].lib.loaded = callers[first].lib.loaded
               /\ X # callers[second].uuid =>
                     /\ BookOf(Stored("user"), X) = BookOf(callers[first].lib.loaded, X)
                     /\ BookOf(Stored("user"), X) # BookOf(callers[first].lib.books, X)

\* C19 witness: one caller added a book and returned, the other changed the
\* page of another book and returned; both had loaded the file before either
\* wrote, and the added book is not in the file.
C19_Witness ==
    \E first, second \in Callers :
        /\ BothLoadedThenWrote(first, second)
        /\ callers[first].pc = "returned" /\ callers[second].pc = "returned"
        /\ callers[first].op = "add_book_user"
        /\ callers[second].op = "change_book_page_user"
        /\ callers[first].uuid # callers[second].uuid
        /\ BookOf(Stored("user"), callers[first].uuid) = <<>>

\* C20: after change_book_page_user has made its update, it fails with
\* UpdateError whenever last_read_page of the book in the backing file differs
\* from the page asked for, as when another writer has rewritten the file
\* between the update and the check; it reports success only when the value
\* in the file equals the page asked for.  (The check asks the caller's own
\* instance, not the file.)
C20_UpdateVerified ==
    [][\A c \in Callers :
          callers[c].pc = "written" /\ callers[c].op = "change_book_page_user"
              /\ callers'[c].pc = "returned"
          => LET persisted == BookOf(Stored("user"), callers[c].uuid)
                 differs == \/ persisted = <<>>
                            \/ persisted[1].last_read_page # callers[c].page
             IN /\ differs => callers'[c].raised = UpdateError
                /\ callers'[c].raised = "" => ~differs]_vars

\* C21: change_book_page_user(uuid, n) on a book without a total page count
\* (pages None) fails with ValidationError and does not update the book.
\* (to_dict always carries the key pages, and the range check is skipped for
\* None.)
C21_NoPageCountRefused ==
    [][Runs("change_book_page_user") /\ last'.args.page.isInt /\ last'.args.page.n > 0 =>
         LET i == FirstIndex(Stored("user"), last'.args.uuid)
         IN i # 0 /\ IsNone(Stored("user")[i].pages) =>
              /\ last'.raised = ValidationError
              /\ files' = files]_vars

\* The values a dict returned by find_book holds, in insertion order.
ProjectedValues(ret) == [i \in 1..Cardinality(DOMAIN ret) |->
                            ret[CHOOSE k \in DOMAIN ret : TRUE]]

\* C22: find_book with a target returns one projection {target: value} for
\* each matched record that carries the target and drops only the matches
\* that lack it: with k matches carrying the target the result holds k
\* values, in match order.  (The dict comprehension writes every match to the
\* one key target.)
C22_ProjectionPerMatch ==
    [][Runs("find_book") /\ last'.raised = "" /\ last'.args.target # NoTarget =>
         LET target == last'.args.target
             found == find_books(Library(last'.args.path, files[last'.args.path]),
                                 last'.args.key, last'.args.value)
             carrying == SelectSeq(found, LAMBDA d : target \in DOMAIN d)
         IN /\ Cardinality(DOMAIN last'.ret) = Len(carrying)
            /\ \A i \in DOMAIN carrying :
                  ProjectedValues(last'.ret)[i] = carrying[i][target]]_vars

\* C26: on success the record change_book_page_user returns shows the update
\* just made: its last_read_page is the page asked for and its
\* percentage_read the recomputed one; it is the record a following
\* find_book by uuid returns.  (The list returned was taken before the
\* update.)
C26_ReturnReflectsUpdate ==
    [][Runs("change_book_page_user") /\ last'.raised = "" =>
         LET following == find_books(Library("user", files'.user), "uuid", last'.args.uuid)
         IN /\ Len(last'.ret) = 1
            /\ last'.ret[1].last_read_page = last'.args.page.n
            /\ last'.ret[1].percentage_read = following[1].percentage_read
            /\ last'.ret = following]_vars

\* C23: add_book_user(X) decides in this order: with X in the user library it
\* fails with the duplicate error, also when X is absent from the global
\* library; otherwise with X absent from the global library it fails with
\* BookNotFoundError; otherwise it returns the global record of X and appends
\* a record equal to it field for field, uuid included, to the user library.
\* The global file is as before in each case, the user file in the first two.
C23_AddToUserOrder ==
    [][Runs("add_book_user") =>
         LET X == last'.args.uuid
             g == Stored("global")[FirstIndex(Stored("global"), X)]
         IN /\ files'.global = files.global
            /\ InUser(X) =>
                 /\ last'.raised = ValidationError
                 /\ last'.msg = "Book already exists."
                 /\ files'.user = files.user
            /\ ~InUser(X) /\ ~InGlobal(X) =>
                 /\ last'.raised = BookNotFoundError
                 /\ files'.user = files.user
            /\ ~InUser(X) /\ InGlobal(X) =>
                 /\ last'.raised = ""
                 /\ last'.ret = g
                 /\ last'.ret.uuid = X
                 /\ load_library(files'.user) = Append(Stored("user"), g)]_vars

\* C23 witness: add_book_user was refused as a duplicate for a book the user
\* library holds and the global library does not.
C23_Witness ==
    /\ last.op = "add_book_user"
    /\ last.raised = ValidationError
    /\ InUser(last.args.uuid)
    /\ ~InGlobal(last.args.uuid)

\* C24: a request to the user search route searches the user library: when no
\* book of the user library matches (and key and target are allowed) the
\* answer is 404, and every record of a 200 answer without target is a record
\* of the user library.
C24_UserSearchSearchesUser ==
    [][last = Idle /\ (\E s \in Searches : search_book_user(s.key, s.value, s.target)) =>
         LET inUser == find_books(Library(user_json, files[user_json]),
                                  last'.args.key, last'.args.value)
         IN /\ validate_keys(last'.args.key) = "" /\ validate_keys(last'.args.target) = ""
                 /\ inUser = <<>> =>
                 status_code(last'.raised) = 404
            /\ status_code(last'.raised) = 200 /\ last'.args.target = NoTarget =>
                 \A i \in DOMAIN last'.ret :
                    \E j \in DOMAIN Stored(user_json) : Stored(user_json)[j] = last'.ret[i]]_vars

\* The operations of business.py that may change a library or answer with an
\* error of their own.
FailingOps == {"find_book", "add_book_user", "add_book_global", "subtract_book_user",
               "find_top_book_user", "change_book_page_user"}

\* C25: a find_book, add_book_user, add_book_global, subtract_book_user,
\* find_top_book_user or change_book_page_user that ends in an error leaves
\* both files exactly as they were before the call.
C25_FailureWritesNothing ==
    [][last = Idle /\ last'.op \in FailingOps /\ last'.raised # "" => files' = files]_vars

\* C25 witness: change_book_page_user was refused for a page past the end of
\* a book the user library holds, with the book's stored progress still at
\* page 0.
C25_Witness ==
    /\ last.op = "change_book_page_user"
    /\ last.raised = ValidationError
    /\ last.args.page.isInt
    /\ last.args.page.n = 301
    /\ InUser(last.args.uuid)
    /\ Stored("user")[FirstIndex(Stored("user"), last.args.uuid)].last_read_page = 0

============================================================================
